---- MODULE Spec2Model ----
(***************************************************************************)
(* A model of murmur (libmurmur.c): the fixed-size round-robin time-series *)
(* file, its creation, its opening, and the set/get paths with the         *)
(* recursive propagation into the lower-precision archives.                *)
(*                                                                         *)
(* The file is a sequence of bytes.  64-bit host values (timestamps,       *)
(* intervals, max_retention) are kept as their eight bytes in host order   *)
(* (least significant first, the build's x86 layout), because they exceed  *)
(* the integers TLC computes with; 32-bit fields are integers.  A double   *)
(* is the exact fraction [n, d].                                           *)
(***************************************************************************)
EXTENDS Integers, Sequences, FiniteSets, TLC

VARIABLES
    disk,      \* the file at path
    fds,       \* the number of descriptors the process holds open on it
    handle,    \* the struct murmur the caller holds, NoHandle when it has none
    now,       \* what time(NULL) returns
    call,      \* the last call made and what it returned
    budget     \* the calls of each kind still to be made in this run

vars == <<disk, fds, handle, now, call, budget>>

-----------------------------------------------------------------------------
(* Machine words.                                                          *)

\* 256^n for the byte positions an integer of the model can occupy.
Pow256(n) == CASE n = 0 -> 1 [] n = 1 -> 256 [] n = 2 -> 65536 [] OTHER -> 16777216

\* Byte i (0 = least significant) of a natural number below 2^31.
ByteOf(n, i) == IF i > 3 THEN 0 ELSE (n \div Pow256(i)) % 256

\* uint64_t x = n: the eight bytes of n in host order.
U64(n) == <<ByteOf(n, 0), ByteOf(n, 1), ByteOf(n, 2), ByteOf(n, 3), 0, 0, 0, 0>>

\* The integer a word stands for, when it is one TLC can hold.
RECURSIVE WVal(_)
WVal(w) == IF w = <<>> THEN 0 ELSE w[1] + 256 * WVal(Tail(w))

\* a < b on words of one length (unsigned compare).
RECURSIVE WLt(_, _)
WLt(a, b) ==
    IF a = <<>> THEN FALSE
    ELSE LET n == Len(a) IN
         IF a[n] # b[n] THEN a[n] < b[n]
         ELSE WLt(SubSeq(a, 1, n - 1), SubSeq(b, 1, n - 1))

\* a - b modulo 2^(8 * Len(a)), byte by byte from the least significant one,
\* with the borrow taken from the byte below.
RECURSIVE SubBorrow(_, _, _)
SubBorrow(a, b, borrow) ==
    IF a = <<>> THEN <<>>
    ELSE LET d == a[1] - b[1] - borrow
         IN  <<(d + 256) % 256>>
                 \o SubBorrow(Tail(a), Tail(b), IF d < 0 THEN 1 ELSE 0)

WSub(a, b) == SubBorrow(a, b, 0)

\* a + b modulo 2^64.
WAdd(a, b) == WSub(a, WSub(U64(0), b))

\* w % m for a divisor below 2^23, most significant byte first.
RECURSIVE WMod(_, _)
WMod(w, m) ==
    IF w = <<>> THEN 0
    ELSE (WMod(Tail(w), m) * 256 + w[1]) % m

\* (uint32_t) w: the low four bytes, widened again to 64 bits.
Trunc32(w) == <<w[1], w[2], w[3], w[4], 0, 0, 0, 0>>

\* The four bytes of the 32-bit product a * b (modulo 2^32), host order.
MulBytes32(a, b) ==
    LET col(c) == LET term[i \in 0..c] == ByteOf(a, i) * ByteOf(b, c - i)
                  IN  term[0] + (IF c >= 1 THEN term[1] ELSE 0)
                              + (IF c >= 2 THEN term[2] ELSE 0)
                              + (IF c >= 3 THEN term[3] ELSE 0)
        t0 == col(0)
        t1 == col(1) + t0 \div 256
        t2 == col(2) + t1 \div 256
        t3 == col(3) + t2 \div 256
    IN  <<t0 % 256, t1 % 256, t2 % 256, t3 % 256>>

\* uint32_t a * b.
Mul32(a, b) == WVal(MulBytes32(a, b))

RECURSIVE Reverse(_)
Reverse(s) == IF s = <<>> THEN <<>> ELSE Reverse(Tail(s)) \o <<s[1]>>

-----------------------------------------------------------------------------
(* Byte order conversions (endian.h) and the packed records.               *)

\* htobe64: the memory image of the converted value is big-endian.
htobe64(w) == Reverse(w)
be64toh(bytes) == Reverse(bytes)

\* htobe32 of a 32-bit integer: its four bytes, most significant first.
htobe32(n) == <<ByteOf(n, 3), ByteOf(n, 2), ByteOf(n, 1), ByteOf(n, 0)>>
be32toh(bytes) == WVal(Reverse(bytes))

\* sizeof(struct murmur_header), sizeof(struct archive_header), sizeof(struct point)
SizeofHeader == 14
SizeofArchiveHeader == 12
SizeofPoint == 16

\* struct point as written: interval and value, both already big-endian.
PointBytes(interval, value) == htobe64(interval) \o htobe64(value)

\* struct murmur_header as written by murmur_create.
HeaderBytes(aggregation, max_retention, x_files_factor, archive_count) ==
    <<aggregation>> \o htobe64(max_retention) \o <<x_files_factor>>
        \o htobe32(archive_count)

\* struct archive_header as written by murmur_create.
ArchiveHeaderBytes(offset, seconds_per_point, points) ==
    htobe32(offset) \o htobe32(seconds_per_point) \o htobe32(points)

-----------------------------------------------------------------------------
(* The archive spec parser.  A token is a C string, kept as the sequence   *)
(* of its characters; the tokens of the model carry no sign and no blanks. *)

DigitChars == <<"0", "1", "2", "3", "4", "5", "6", "7", "8", "9">>
IsDigit(c) == \E i \in 1..10 : DigitChars[i] = c
DigitVal(c) == (CHOOSE i \in 1..10 : DigitChars[i] = c) - 1

\* strtol(s + from - 1, &end, 10): the digits from position `from` on.  end is
\* the position of the first character not converted (Len(s) + 1 at the NUL).
RECURSIVE StrtolFrom(_, _, _)
StrtolFrom(s, pos, acc) ==
    IF pos <= Len(s) /\ IsDigit(s[pos])
    THEN StrtolFrom(s, pos + 1, acc * 10 + DigitVal(s[pos]))
    ELSE [val |-> acc, end |-> pos]
Strtol(s, from) == StrtolFrom(s, from, 0)

\* strchr(s, ':'): the position of the first colon, 0 for NULL.
Strchr(s) ==
    IF \E i \in 1..Len(s) : s[i] = ":"
    THEN CHOOSE i \in 1..Len(s) : s[i] = ":" /\ \A j \in 1..(i - 1) : s[j] # ":"
    ELSE 0

SECONDS == <<"s", "e", "c", "o", "n", "d", "s">>
MINUTES == <<"m", "i", "n", "u", "t", "e", "s">>
HOURS == <<"h", "o", "u", "r", "s">>
DAYS == <<"d", "a", "y", "s">>
WEEKS == <<"w", "e", "e", "k", "s">>
YEARS == <<"y", "e", "a", "r", "s">>

\* strstr(NAME, _unit) == NAME: _unit is found at the start of NAME.
StartsName(name, unit) ==
    Len(unit) <= Len(name) /\ SubSeq(name, 1, Len(unit)) = unit

\* _murmur_spec_to_seconds: unit is the text from position `from` on, colon
\* the number of characters up to the colon (0 on the right-hand side).  At
\* most seven characters are copied into _unit.  ok is FALSE for the -1 return.
SpecToSeconds(precision, s, from, colon) ==
    LET n == IF colon > 0 /\ colon < 7 THEN colon ELSE 7
        last == IF from + n - 1 <= Len(s) THEN from + n - 1 ELSE Len(s)
        unit == SubSeq(s, from, last)
    IN  IF StartsName(SECONDS, unit) THEN [ok |-> TRUE, val |-> precision]
        ELSE IF StartsName(MINUTES, unit) THEN [ok |-> TRUE, val |-> precision * 60]
        ELSE IF StartsName(HOURS, unit) THEN [ok |-> TRUE, val |-> precision * 60 * 60]
        ELSE IF StartsName(DAYS, unit) THEN [ok |-> TRUE, val |-> precision * 60 * 60 * 24]
        ELSE IF StartsName(WEEKS, unit)
             THEN [ok |-> TRUE, val |-> precision * 60 * 60 * 24 * 7]
        ELSE IF StartsName(YEARS, unit)
             THEN [ok |-> TRUE, val |-> precision * 60 * 60 * 24 * 7 * 365]
        ELSE [ok |-> FALSE, val |-> precision]

\* The loop round with the division made on every right-hand side.
ParseToken_AlwaysDivide(s) ==
    LET colon == Strchr(s)
        left == Strtol(s, 1)
        lunit == SpecToSeconds(left.val, s, left.end, colon - left.end)
        spp == IF left.end # colon THEN lunit.val ELSE left.val
        right == Strtol(s, colon + 1)
        runit == SpecToSeconds(right.val, s, right.end, 0)
        bad == [res |-> "error", seconds_per_point |-> 0, points |-> 0]
    IN  IF colon = 0 THEN bad
        ELSE IF left.end # colon /\ ~lunit.ok THEN bad
        ELSE IF right.end <= Len(s) /\ ~runit.ok THEN bad
        ELSE IF spp = 0 THEN [res |-> "fpe", seconds_per_point |-> 0, points |-> 0]
        ELSE [res |-> "ok", seconds_per_point |-> spp,
              points |-> (IF right.end <= Len(s) THEN runit.val ELSE right.val) \div spp]

\* One round of the loop of _murmur_parse_archive_spec.  res is "ok", "error"
\* (goto error) or "fpe" (points /= seconds_per_point with a zero divisor).
ParseToken(s) ==
    LET colon == Strchr(s)
        left == Strtol(s, 1)
        lunit == SpecToSeconds(left.val, s, left.end, colon - left.end)
        spp == IF left.end # colon THEN lunit.val ELSE left.val
        right == Strtol(s, colon + 1)
        runit == SpecToSeconds(right.val, s, right.end, 0)
        bad == [res |-> "error", seconds_per_point |-> 0, points |-> 0]
    IN  IF colon = 0 THEN bad
        ELSE IF left.end # colon /\ ~lunit.ok THEN bad
        ELSE IF right.end <= Len(s)
             THEN IF ~runit.ok THEN bad
                  ELSE IF spp = 0
                       THEN [res |-> "fpe", seconds_per_point |-> 0, points |-> 0]
                       ELSE [res |-> "ok", seconds_per_point |-> spp,
                             points |-> runit.val \div spp]
             ELSE [res |-> "ok", seconds_per_point |-> spp, points |-> right.val]

\* _murmur_parse_archive_spec: the tokens in order, stopping at the first that
\* does not parse.  count is the return value, 0 on error and for no token.
RECURSIVE ParseFrom(_, _, _)
ParseFrom(specv, i, acc) ==
    IF i > Len(specv) THEN [res |-> "ok", count |-> Len(specv), headers |-> acc]
    ELSE LET t == ParseToken(specv[i]) IN
         IF t.res # "ok" THEN [res |-> t.res, count |-> 0, headers |-> <<>>]
         ELSE ParseFrom(specv, i + 1,
                        Append(acc, [offset |-> 0,
                                     seconds_per_point |-> t.seconds_per_point,
                                     points |-> t.points]))

ParseArchiveSpec(specv) ==
    IF Len(specv) = 0 THEN [res |-> "error", count |-> 0, headers |-> <<>>]
    ELSE ParseFrom(specv, 1, <<>>)

-----------------------------------------------------------------------------
(* The validator.                                                          *)

\* qsort with _murmur_validate_archives_sort: ascending seconds_per_point.
\* Headers of equal precision end up side by side, in either order; the
\* validator rejects them whichever comes first.
RECURSIVE Insert(_, _)
Insert(sorted, h) ==
    IF sorted = <<>> THEN <<h>>
    ELSE IF h.seconds_per_point - sorted[1].seconds_per_point < 0
         THEN <<h>> \o sorted
         ELSE <<sorted[1]>> \o Insert(Tail(sorted), h)

RECURSIVE Qsort(_)
Qsort(hs) ==
    IF hs = <<>> THEN <<>>
    ELSE Insert(Qsort(SubSeq(hs, 1, Len(hs) - 1)), hs[Len(hs)])

\* The checks of the loop body of _murmur_validate_archives on one pair:
\* "ok", "error" (return -1) or "fpe" (next_spp % spp with spp = 0).
PairCheck(arch, next_arch) ==
    LET spp == arch.seconds_per_point
        next_spp == next_arch.seconds_per_point
        retention == Mul32(spp, arch.points)
        next_retention == Mul32(next_spp, next_arch.points)
    IN  IF spp = next_spp THEN "error"
        ELSE IF spp = 0 THEN "fpe"
        ELSE IF next_spp % spp # 0 THEN "error"
        ELSE IF retention > next_retention THEN "error"
        ELSE IF arch.points < next_spp \div spp THEN "error"
        ELSE "ok"

RECURSIVE ValidateFrom(_, _)
ValidateFrom(hs, i) ==
    IF i > Len(hs) - 1 THEN "ok"
    ELSE LET r == PairCheck(hs[i], hs[i + 1]) IN
         IF r # "ok" THEN r ELSE ValidateFrom(hs, i + 1)

\* _murmur_validate_archives on the headers qsort left in place.
ValidateArchives(hs) == IF Len(hs) = 0 THEN "error" ELSE ValidateFrom(hs, 1)

-----------------------------------------------------------------------------
(* The file at path, and the system calls on it.                           *)

\* The file at path: its length and its bytes.  Only the bytes up to the last
\* non-zero one are kept; the bytes from there to the end of the file are zero
\* (the holes fallocate leaves, and zeros that were written).
NoFile == [exists |-> FALSE, size |-> 0, bytes |-> <<>>]

Max(a, b) == IF a > b THEN a ELSE b
Min(a, b) == IF a < b THEN a ELSE b

Zeros(n) == [i \in 1..n |-> 0]

\* The bytes without the zeros they end with.
Trim(bytes) ==
    LET nonzero == {i \in 1..Len(bytes) : bytes[i] # 0}
    IN  IF nonzero = {} THEN <<>>
        ELSE SubSeq(bytes, 1, CHOOSE i \in nonzero : \A j \in nonzero : j <= i)

File(size, bytes) == [exists |-> TRUE, size |-> size, bytes |-> Trim(bytes)]

\* The first n bytes of the file, n <= f.size.
Upto(f, n) ==
    IF n <= Len(f.bytes) THEN SubSeq(f.bytes, 1, n)
    ELSE f.bytes \o Zeros(n - Len(f.bytes))

\* The byte at offset off of the file, off < f.size.
ByteAt(f, off) == IF off < Len(f.bytes) THEN f.bytes[off + 1] ELSE 0

\* write(fd, data, Len(data)) with the file position at off: the bytes are
\* replaced in place and the file grows when the write ends past its end.
WriteAt(f, off, data) ==
    LET end == off + Len(data)
        grown == [f EXCEPT !.size = Max(f.size, end)]
    IN  File(grown.size,
             Upto(grown, off) \o data \o SubSeq(f.bytes, end + 1, Len(f.bytes)))

\* read(fd, buf, n) with the file position at off: the bytes there, fewer at
\* the end of the file.
ReadAt(f, off, n) ==
    LET end == Min(off + n, f.size)
    IN  IF end <= off THEN <<>> ELSE SubSeq(Upto(f, end), off + 1, end)

\* fallocate(fd, 0, off, len), len > 0: the range is allocated, the file grows
\* to off + len when shorter, and bytes already there are kept.
Fallocate(f, off, len) == File(Max(f.size, off + len), f.bytes)

-----------------------------------------------------------------------------
(* murmur_create.                                                          *)

\* The loop of murmur_create over the validated headers: the offsets, the
\* running maximum of the retentions and the end offset.
RECURSIVE LayoutFrom(_, _, _, _, _)
LayoutFrom(hs, i, offset, max_retention, acc) ==
    IF i > Len(hs)
    THEN [headers |-> acc, offset |-> offset, max_retention |-> max_retention]
    ELSE LET ah == hs[i]
             retention == U64(Mul32(ah.seconds_per_point, ah.points))
         IN  LayoutFrom(hs, i + 1, offset + ah.points * SizeofPoint,
                        IF WLt(max_retention, retention) THEN retention
                        ELSE max_retention,
                        Append(acc, [ah EXCEPT !.offset = offset]))

Layout(hs) ==
    LayoutFrom(hs, 1, SizeofHeader + Len(hs) * SizeofArchiveHeader, U64(0), <<>>)

RECURSIVE DirBytes(_)
DirBytes(hs) ==
    IF hs = <<>> THEN <<>>
    ELSE ArchiveHeaderBytes(hs[1].offset, hs[1].seconds_per_point, hs[1].points)
             \o DirBytes(Tail(hs))

\* The system calls of murmur_create, in order; FailCall names the one that
\* fails in a run (0: none does).
CallOpen == 1
CallWriteHeader == 2
CallWriteArchives == 3
CallFallocate == 4

\* What a call of murmur_create leaves: ret is the return value; fpe tells
\* that the call did not return because a division by zero killed the
\* process; disk is the file at path; closed and freed tell whether the
\* descriptor was closed and the header array freed on the way out.
Returned(ret, f, closed, freed) ==
    [ret |-> ret, fpe |-> FALSE, disk |-> f, closed |-> closed, freed |-> freed]

Killed(f) == [ret |-> -1, fpe |-> TRUE, disk |-> f, closed |-> TRUE, freed |-> TRUE]

\* murmur_create from the fallocate on: b2 is the file with the header and
\* the archive headers written.
CreateAllocate(b2, lay, FailCall) ==
    LET curr_pos == SizeofHeader + Len(lay.headers) * SizeofArchiveHeader
    IN  IF FailCall = CallFallocate \/ lay.offset - curr_pos <= 0
        THEN Returned(-1, b2, TRUE, TRUE)
        ELSE Returned(0, Fallocate(b2, curr_pos, lay.offset - curr_pos), TRUE, TRUE)

\* murmur_create from the write of the archive headers on: b1 is the file
\* with the header written.
CreateArchives(b1, lay, FailCall) ==
    IF FailCall = CallWriteArchives THEN Returned(-1, b1, TRUE, TRUE)
    ELSE CreateAllocate(WriteAt(b1, SizeofHeader, DirBytes(lay.headers)), lay, FailCall)

\* murmur_create from the loop over the validated headers on.
CreateHeader(opened, lay, aggregation, x_files_factor, FailCall) ==
    IF FailCall = CallWriteHeader THEN Returned(-1, opened, TRUE, TRUE)
    ELSE CreateArchives(
             WriteAt(opened, 0,
                     HeaderBytes(IF aggregation = 0 THEN 1 ELSE aggregation,
                                 lay.max_retention, x_files_factor,
                                 Len(lay.headers))),
             lay, FailCall)

\* murmur_create from the validation on: sorted is the header array as qsort
\* left it and valid what _murmur_validate_archives made of it.
CreateValidated(opened, sorted, valid, aggregation, x_files_factor, FailCall) ==
    IF valid = "fpe" THEN Killed(opened)
    ELSE IF valid = "error" THEN Returned(-1, opened, FALSE, FALSE)
    ELSE CreateHeader(opened, Layout(sorted), aggregation, x_files_factor, FailCall)

CreateSorted(opened, sorted, aggregation, x_files_factor, FailCall) ==
    CreateValidated(opened, sorted, ValidateArchives(sorted),
                    aggregation, x_files_factor, FailCall)

\* murmur_create after the open: opened is the file the descriptor is on and
\* parsed what _murmur_parse_archive_spec returned.
CreateParsed(opened, parsed, aggregation, x_files_factor, FailCall) ==
    IF parsed.res = "fpe" THEN Killed(opened)
    ELSE IF parsed.count = 0 THEN Returned(-1, opened, FALSE, TRUE)
    ELSE CreateSorted(opened, Qsort(parsed.headers),
                      aggregation, x_files_factor, FailCall)

\* murmur_create(path, specc, specv, aggregation, x_files_factor) on the file
\* d at path.  open(2) with O_CREAT and no O_TRUNC makes an empty file where
\* there is none and leaves an existing one as it is.
murmur_create(d, specv, aggregation, x_files_factor, FailCall) ==
    IF FailCall = CallOpen THEN Returned(-1, d, TRUE, TRUE)
    ELSE CreateParsed(IF d.exists THEN d ELSE File(0, <<>>),
                      ParseArchiveSpec(specv),
                      aggregation, x_files_factor, FailCall)


-----------------------------------------------------------------------------
(* murmur_open and murmur_close.                                           *)

NoHandle == [open |-> FALSE]

\* The loop of murmur_open over the archive directory: one read of
\* sizeof(struct archive_header) bytes per archive, in file order.  short tells
\* that a read came back short.  lower is the index of the archive the lower
\* pointer is set to, 0 for NULL.
RECURSIVE OpenArchives(_, _, _, _)
OpenArchives(f, count, i, acc) ==
    IF i >= count THEN [short |-> FALSE, archives |-> acc]
    ELSE LET ah == ReadAt(f, SizeofHeader + i * SizeofArchiveHeader,
                          SizeofArchiveHeader)
         IN  IF Len(ah) # SizeofArchiveHeader THEN [short |-> TRUE, archives |-> acc]
             ELSE LET seconds_per_point == be32toh(SubSeq(ah, 5, 8))
                      points == be32toh(SubSeq(ah, 9, 12))
                      arch == [offset |-> be32toh(SubSeq(ah, 1, 4)),
                               seconds_per_point |-> seconds_per_point,
                               points |-> points,
                               retention |-> Mul32(seconds_per_point, points),
                               size |-> points * SizeofPoint,
                               lower |-> 0]
                      linked == IF acc = <<>> THEN acc
                                ELSE [acc EXCEPT ![Len(acc)].lower = i + 1]
                  IN  OpenArchives(f, count, i + 1, Append(linked, arch))

\* An error label that closes nothing and frees only the handle.
OpenError_Leak(has_mmr, has_archives) ==
    [mmr |-> NoHandle,
     opens |-> IF has_mmr THEN 1 ELSE 0,
     closes |-> 0,
     allocs |-> (IF has_mmr THEN 1 ELSE 0) + (IF has_archives THEN 1 ELSE 0),
     frees |-> IF has_mmr THEN 1 ELSE 0]

\* The label error of murmur_open.  has_mmr: open(2) gave a descriptor and
\* the handle was allocated; has_archives: so was the archive array.  With no
\* handle, close(fd) is called on fd = -1 and closes nothing; with one,
\* murmur_close closes the descriptor and frees the array and the handle.
OpenError(has_mmr, has_archives) ==
    [mmr |-> NoHandle,
     opens |-> IF has_mmr THEN 1 ELSE 0,
     closes |-> IF has_mmr THEN 1 ELSE 0,
     allocs |-> (IF has_mmr THEN 1 ELSE 0) + (IF has_archives THEN 1 ELSE 0),
     frees |-> (IF has_mmr THEN 1 ELSE 0) + (IF has_archives THEN 1 ELSE 0)]

\* murmur_open(path) on the file d.  FailOpen: open(path, O_RDWR) fails.  mmr
\* is the handle returned, NoHandle for NULL; opens and closes count the
\* descriptors the call opened and the ones of them it closed, allocs and
\* frees the blocks it took from malloc and the ones of them it freed.
murmur_open(d, FailOpen) ==
    LET h == ReadAt(d, 0, SizeofHeader)
        archive_count == be32toh(SubSeq(h, 11, 14))
        dir == OpenArchives(d, archive_count, 0, <<>>)
    IN  IF ~d.exists \/ FailOpen THEN OpenError(FALSE, FALSE)
        ELSE IF Len(h) # SizeofHeader THEN OpenError(TRUE, FALSE)
        ELSE IF archive_count = 0 THEN OpenError(TRUE, FALSE)
        ELSE IF dir.short THEN OpenError(TRUE, TRUE)
        ELSE [mmr |-> [open |-> TRUE,
                       aggregation |-> h[1],
                       max_retention |-> be64toh(SubSeq(h, 2, 9)),
                       x_files_factor |-> h[10],
                       archive_count |-> archive_count,
                       archives |-> dir.archives],
              opens |-> 1, closes |-> 0, allocs |-> 2, frees |-> 0]

-----------------------------------------------------------------------------
(* Locating a point.                                                       *)

\* _murmur_get_archive with time(NULL) = clock: the difference is cut to 32
\* bits.  ret is the return value and arch the index of the archive chosen.
murmur_get_archive(mmr, clock, timestamp) ==
    LET diff == Trunc32(WSub(clock, timestamp))
        fits == {i \in 1..mmr.archive_count :
                    WLt(diff, U64(mmr.archives[i].retention))}
        first == IF fits = {} THEN mmr.archive_count
                 ELSE CHOOSE i \in fits : \A j \in fits : i <= j
    IN  IF WLt(mmr.max_retention, diff) THEN [ret |-> -1, arch |-> 0]
        ELSE IF diff = U64(0) THEN [ret |-> -1, arch |-> 0]
        ELSE [ret |-> 0, arch |-> first]

\* A seek that leaves out the offset of the archive.
murmur_seek_to_point_NoOffset(arch, timestamp) ==
    LET interval == WSub(timestamp, U64(WMod(timestamp, arch.seconds_per_point)))
    IN  [interval |-> interval,
         seeked |-> SizeofPoint * (WMod(interval, arch.retention)
                                      \div arch.seconds_per_point)]

\* _murmur_seek_to_point: the interval written through the out parameter and
\* the file offset the descriptor is moved to.
murmur_seek_to_point(arch, timestamp) ==
    LET interval == WSub(timestamp, U64(WMod(timestamp, arch.seconds_per_point)))
    IN  [interval |-> interval,
         seeked |-> arch.offset
                      + SizeofPoint * (WMod(interval, arch.retention)
                                          \div arch.seconds_per_point)]

-----------------------------------------------------------------------------
(* Aggregation.  A double is the fraction n / d.                           *)

\* (double) of a 64-bit unsigned value.
ToDouble(w) == [n |-> WVal(w), d |-> 1]

\* A conversion that rounds up to the next integer instead.
DoubleToU64_Up(x) == U64(x.n \div x.d + 1)

\* (uint64_t) of a non-negative double: the fraction is cut off.
DoubleToU64(x) == U64(x.n \div x.d)

PointInterval(pt) == be64toh(SubSeq(pt, 1, 8))
PointValue(pt) == WVal(be64toh(SubSeq(pt, 9, 16)))

\* The running value of the loops of _murmur_aggregate after the points
\* pointsv[1..i] (the C indexes 0..i-1).
RECURSIVE SumTo(_, _)
SumTo(pointsv, i) ==
    IF i = 1 THEN PointValue(pointsv[1])
    ELSE SumTo(pointsv, i - 1) + PointValue(pointsv[i])

RECURSIVE MaxTo(_, _)
MaxTo(pointsv, i) ==
    IF i = 1 THEN PointValue(pointsv[1])
    ELSE LET val == MaxTo(pointsv, i - 1)
             v == PointValue(pointsv[i])
         IN  IF v > val THEN v ELSE val

RECURSIVE MinTo(_, _)
MinTo(pointsv, i) ==
    IF i = 1 THEN PointValue(pointsv[1])
    ELSE LET val == MinTo(pointsv, i - 1)
             v == PointValue(pointsv[i])
         IN  IF v < val THEN v ELSE val

\* case last: the pair (last_interval, last_i) after the C indexes 1..i-1.  The
\* code stores the index i, not the interval l, in last_interval.
RECURSIVE LastTo(_, _)
LastTo(pointsv, i) ==
    IF i = 1 THEN [last_interval |-> PointInterval(pointsv[1]), last_i |-> 0]
    ELSE LET st == LastTo(pointsv, i - 1)
             l == PointInterval(pointsv[i])
         IN  IF WLt(st.last_interval, l)
             THEN [last_interval |-> U64(i - 1), last_i |-> i - 1]
             ELSE st

\* enum aggregation_method
agg_average == 1
agg_sum == 2
agg_last == 3
agg_max == 4
agg_min == 5

\* An aggregation whose average leaves the empty slots out.
murmur_aggregate_SkipEmpty(aggregation, pointsc, pointsv) ==
    LET known == Cardinality({i \in 1..pointsc : PointInterval(pointsv[i]) # U64(0)})
    IN  CASE aggregation = agg_sum -> [n |-> SumTo(pointsv, pointsc), d |-> 1]
          [] aggregation = agg_last ->
                [n |-> PointValue(pointsv[LastTo(pointsv, pointsc).last_i + 1]), d |-> 1]
          [] aggregation = agg_max -> [n |-> MaxTo(pointsv, pointsc), d |-> 1]
          [] aggregation = agg_min -> [n |-> MinTo(pointsv, pointsc), d |-> 1]
          [] OTHER -> [n |-> SumTo(pointsv, pointsc),
                       d |-> IF known = 0 THEN pointsc ELSE known]

\* _murmur_aggregate(aggregation, pointsc, pointsv).
murmur_aggregate(aggregation, pointsc, pointsv) ==
    CASE aggregation = agg_sum -> [n |-> SumTo(pointsv, pointsc), d |-> 1]
      [] aggregation = agg_last ->
            [n |-> PointValue(pointsv[LastTo(pointsv, pointsc).last_i + 1]), d |-> 1]
      [] aggregation = agg_max -> [n |-> MaxTo(pointsv, pointsc), d |-> 1]
      [] aggregation = agg_min -> [n |-> MinTo(pointsv, pointsc), d |-> 1]
      [] OTHER -> [n |-> SumTo(pointsv, pointsc), d |-> pointsc]

-----------------------------------------------------------------------------
(* The write path.  The system calls of one murmur_set or murmur_get are   *)
(* counted as they are made; FailCall is the number of the one that fails  *)
(* in a run (0: none does), and c the number of calls made so far.         *)

\* The bytes of a buffer as its k points.
RECURSIVE Points(_, _)
Points(buf, k) ==
    IF k = 0 THEN <<>>
    ELSE Points(buf, k - 1) \o <<SubSeq(buf, SizeofPoint * (k - 1) + 1, SizeofPoint * k)>>

\* What is in an array of n bytes of which only the first Len(got) were read:
\* the rest is whatever the stack held, the point junk repeated.
Filled(got, n, junk) ==
    got \o SubSeq([j \in 1..n |-> junk[((j - 1) % SizeofPoint) + 1]], Len(got) + 1, n)

\* A window read that puts the slots from the start of the ring first.
WindowPoints_HeadFirst(f, arch, record_start, sizeof_points) ==
    LET archive_end == arch.offset + arch.size
        to_read == archive_end - record_start
    IN  IF record_start + sizeof_points > archive_end
        THEN ReadAt(f, arch.offset, sizeof_points - to_read)
                \o ReadAt(f, record_start, to_read)
        ELSE ReadAt(f, record_start, sizeof_points)

\* A window that is read in one piece even where it runs past the end.
WindowRanges_NoWrap(arch, record_start, sizeof_points) ==
    <<[off |-> record_start, len |-> sizeof_points]>>

\* The byte ranges the reads of _murmur_propogate ask for, in the order of
\* the reads: the whole window, or, when it runs past the end of the archive,
\* the bytes up to the end and then the rest from the start of the archive.
WindowRanges(arch, record_start, sizeof_points) ==
    LET archive_end == arch.offset + arch.size
        to_read == archive_end - record_start
    IN  IF record_start + sizeof_points > archive_end
        THEN <<[off |-> record_start, len |-> to_read],
               [off |-> arch.offset, len |-> sizeof_points - to_read]>>
        ELSE <<[off |-> record_start, len |-> sizeof_points]>>

\* What these reads store in the array points when none of them fails, the
\* second read behind the first.
WindowPoints(f, arch, record_start, sizeof_points) ==
    LET ranges == WindowRanges(arch, record_start, sizeof_points)
    IN  IF Len(ranges) = 2
        THEN ReadAt(f, ranges[1].off, ranges[1].len)
                \o ReadAt(f, ranges[2].off, ranges[2].len)
        ELSE ReadAt(f, ranges[1].off, ranges[1].len)

RECURSIVE murmur_arch_set(_, _, _, _, _, _, _, _)
RECURSIVE murmur_propogate(_, _, _, _, _, _, _)

\* _murmur_propogate(mmr, arch, timestamp), arch = mmr.archives[i], on the
\* file f.  calls is the number of system calls made when the call returns.
murmur_propogate(f, mmr, i, timestamp, c, FailCall, junk) ==
    LET arch == mmr.archives[i]
        lower == mmr.archives[arch.lower]
        k == lower.seconds_per_point \div arch.seconds_per_point
        sizeof_points == k * SizeofPoint
        record_start == murmur_seek_to_point(arch, timestamp).seeked
        archive_end == arch.offset + arch.size
        wraps == record_start + sizeof_points > archive_end
        to_read == archive_end - record_start
        tail == ReadAt(f, record_start, to_read)
        head == ReadAt(f, arch.offset, sizeof_points - to_read)
        whole == ReadAt(f, record_start, sizeof_points)
        points == IF wraps THEN WindowPoints(f, arch, record_start, sizeof_points)
                  ELSE IF FailCall = c + 2 THEN Filled(<<>>, sizeof_points, junk)
                  ELSE Filled(whole, sizeof_points, junk)
        val == murmur_aggregate(mmr.aggregation, k, Points(points, k))
        set == murmur_arch_set(f, mmr, arch.lower, timestamp, val,
                               IF wraps THEN c + 4 ELSE c + 2, FailCall, junk)
        error(calls) == [ret |-> -1, file |-> f, calls |-> calls]
    IN  IF arch.lower = 0 THEN [ret |-> 0, file |-> f, calls |-> c]
        ELSE IF FailCall = c + 1 THEN error(c + 1)
        ELSE IF wraps /\ (FailCall = c + 2 \/ Len(tail) # to_read) THEN error(c + 2)
        ELSE IF wraps /\ FailCall = c + 3 THEN error(c + 3)
        ELSE IF wraps /\ (FailCall = c + 4 \/ Len(head) # sizeof_points - to_read)
             THEN error(c + 4)
        ELSE IF set.ret # 0 THEN [ret |-> -1, file |-> set.file, calls |-> set.calls]
        ELSE [ret |-> 0, file |-> set.file, calls |-> set.calls]

\* A _murmur_arch_set that writes one byte more than the point.
murmur_arch_set_Spill(f, mmr, i, timestamp, value, c, FailCall, junk) ==
    LET at == murmur_seek_to_point(mmr.archives[i], timestamp)
        pt == PointBytes(at.interval, DoubleToU64(value))
    IN  IF FailCall = c + 1 THEN [ret |-> -1, file |-> f, calls |-> c + 1]
        ELSE IF FailCall = c + 2 THEN [ret |-> -1, file |-> f, calls |-> c + 2]
        ELSE murmur_propogate(WriteAt(f, at.seeked, pt \o <<1>>), mmr, i, timestamp,
                              c + 2, FailCall, junk)

\* A _murmur_arch_set that takes its write back when the propagation fails.
murmur_arch_set_Undo(f, mmr, i, timestamp, value, c, FailCall, junk) ==
    LET at == murmur_seek_to_point(mmr.archives[i], timestamp)
        pt == PointBytes(at.interval, DoubleToU64(value))
        r == murmur_propogate(WriteAt(f, at.seeked, pt), mmr, i, timestamp,
                              c + 2, FailCall, junk)
    IN  IF FailCall = c + 1 THEN [ret |-> -1, file |-> f, calls |-> c + 1]
        ELSE IF FailCall = c + 2 THEN [ret |-> -1, file |-> f, calls |-> c + 2]
        ELSE IF r.ret # 0 THEN [r EXCEPT !.file = f]
        ELSE r

\* _murmur_arch_set(mmr, arch, timestamp, value), arch = mmr.archives[i].
murmur_arch_set(f, mmr, i, timestamp, value, c, FailCall, junk) ==
    LET at == murmur_seek_to_point(mmr.archives[i], timestamp)
        pt == PointBytes(at.interval, DoubleToU64(value))
    IN  IF FailCall = c + 1 THEN [ret |-> -1, file |-> f, calls |-> c + 1]
        ELSE IF FailCall = c + 2 THEN [ret |-> -1, file |-> f, calls |-> c + 2]
        ELSE murmur_propogate(WriteAt(f, at.seeked, pt), mmr, i, timestamp,
                              c + 2, FailCall, junk)

\* A murmur_set that writes the point into the first archive before it looks
\* for the archive to use.
murmur_set_Touch(f, mmr, clock, timestamp, value, FailCall, junk) ==
    LET found == murmur_get_archive(mmr, clock, timestamp)
        touched == WriteAt(f, mmr.archives[1].offset,
                           PointBytes(timestamp, DoubleToU64(value)))
    IN  IF found.ret # 0 THEN [ret |-> -1, file |-> touched, calls |-> 0, arch |-> 0]
        ELSE [arch |-> found.arch]
             @@ murmur_arch_set(touched, mmr, found.arch, timestamp, value, 0,
                                FailCall, junk)

\* murmur_set(mmr, timestamp, value) with the clock at `clock`.
murmur_set(f, mmr, clock, timestamp, value, FailCall, junk) ==
    LET found == murmur_get_archive(mmr, clock, timestamp)
    IN  IF found.ret # 0 THEN [ret |-> -1, file |-> f, calls |-> 0, arch |-> 0]
        ELSE [arch |-> found.arch]
             @@ murmur_arch_set(f, mmr, found.arch, timestamp, value, 0,
                                FailCall, junk)

\* A murmur_get that fails when the slot does not hold the bucket asked for.
murmur_get_Checked(f, mmr, clock, timestamp, FailCall) ==
    LET found == murmur_get_archive(mmr, clock, timestamp)
        at == murmur_seek_to_point(mmr.archives[found.arch], timestamp)
        pt == ReadAt(f, at.seeked, SizeofPoint)
        failed == [ret |-> -1, arch |-> found.arch, value |-> [n |-> 0, d |-> 0]]
    IN  IF found.ret # 0 THEN failed
        ELSE IF FailCall = 1 THEN failed
        ELSE IF FailCall = 2 \/ Len(pt) # SizeofPoint THEN failed
        ELSE IF be64toh(SubSeq(pt, 1, 8)) # at.interval THEN failed
        ELSE [ret |-> 0, arch |-> found.arch,
              value |-> ToDouble(be64toh(SubSeq(pt, 9, 16)))]

\* murmur_get(mmr, timestamp, &value) with the clock at `clock`.  value is
\* what the call stored in *value; on failure nothing is stored (0 / 0 here).
murmur_get(f, mmr, clock, timestamp, FailCall) ==
    LET found == murmur_get_archive(mmr, clock, timestamp)
        at == murmur_seek_to_point(mmr.archives[found.arch], timestamp)
        pt == ReadAt(f, at.seeked, SizeofPoint)
        failed == [ret |-> -1, arch |-> found.arch, value |-> [n |-> 0, d |-> 0]]
    IN  IF found.ret # 0 THEN failed
        ELSE IF FailCall = 1 THEN failed
        ELSE IF FailCall = 2 \/ Len(pt) # SizeofPoint THEN failed
        ELSE [ret |-> 0, arch |-> found.arch,
              value |-> ToDouble(be64toh(SubSeq(pt, 9, 16)))]

-----------------------------------------------------------------------------
(* Inputs.                                                                 *)

\* The archive specs the runs create files from, as argv holds them.
Tok_1s_4 == <<"1", "s", ":", "4">>
Tok_2s_3 == <<"2", "s", ":", "3">>
Tok_2s_4 == <<"2", "s", ":", "4">>
Tok_4s_2 == <<"4", "s", ":", "2">>
Tok_10s_1m == <<"1", "0", "s", ":", "1", "m">>
Tok_1m_5m == <<"1", "m", ":", "5", "m">>
Tok_1s_1 == <<"1", "s", ":", "1">>
Tok_2s_1 == <<"2", "s", ":", "1">>
Tok_3s_4 == <<"3", "s", ":", "4">>
Tok_1s == <<"1", "s">>
Tok_0s_1m == <<"0", "s", ":", "1", "m">>
Tok_2s_1s == <<"2", "s", ":", "1", "s">>
Tok_s_4 == <<"s", ":", "4">>
Tok_65536_65536 == <<"6", "5", "5", "3", "6", ":", "6", "5", "5", "3", "6">>
Tok_131072_1 == <<"1", "3", "1", "0", "7", "2", ":", "1">>
Tok_196608_21846 == <<"1", "9", "6", "6", "0", "8", ":", "2", "1", "8", "4", "6">>

SpecTwo == <<Tok_1s_4, Tok_2s_3>>
SpecThree == <<Tok_1s_4, Tok_2s_4, Tok_4s_2>>
SpecSane == <<Tok_10s_1m, Tok_1m_5m>>

\* What murmur_create is called with: sets the validator accepts, in and out
\* of order, sets that break each of its four rules, tokens that do not
\* parse, a zero precision, a retention shorter than the precision, a
\* precision without a number, no token at all, and precisions and point counts whose product does not fit 32 bits.
SpecInputs ==
    {SpecTwo, <<Tok_2s_3, Tok_1s_4>>, SpecThree, <<Tok_4s_2, Tok_1s_4, Tok_2s_4>>,
     SpecSane, <<Tok_1s_4>>,
     <<Tok_1s_4, Tok_1s_1>>, <<Tok_3s_4, Tok_2s_4>>, <<Tok_1s_4, Tok_2s_1>>,
     <<Tok_2s_3, Tok_1s_1>>,
     <<Tok_1s>>, <<Tok_0s_1m>>, <<Tok_2s_1s>>, <<Tok_s_4>>, <<>>,
     <<Tok_65536_65536>>, <<Tok_131072_1, Tok_65536_65536>>}

AggregationInputs == {0, agg_sum}
FactorInputs == {0, 50}

\* Bounds of the runs: the calls of set and of get made on the opened file,
\* the seconds that pass, and the calls of murmur_create.
MaxSets == 2
MaxGets == 1
MaxSaneSets == 1
MaxTicks == 1
MaxCreates == 1

\* The clock when the runs start.
ClockStart == 1000

\* 2^32 - 1 seconds.
FarAhead == <<255, 255, 255, 255, 0, 0, 0, 0>>

\* The timestamps handed to set and get: the clock, every step of the finest
\* precision back from it to just past the horizon, the second before and
\* the second after the clock, and a time 2^32 - 1 seconds after the clock.
TimestampInputs(mmr, clock) ==
    LET spp == mmr.archives[1].seconds_per_point
        steps == WVal(mmr.max_retention) \div spp
    IN  {WSub(clock, U64(j * spp)) : j \in 0..(steps + 1)}
            \cup {WSub(clock, U64(1)), WAdd(clock, U64(1)), WAdd(clock, FarAhead)}

ValueInputs == {[n |-> 3, d |-> 1], [n |-> 100, d |-> 1]}

\* What the stack holds where no read has stored anything.
NoJunk == PointBytes(U64(0), U64(0))

\* A file an earlier run left at path: created for three archives, with one
\* point set in it.
StaleFile ==
    LET created == murmur_create(NoFile, SpecThree, agg_average, 0, 0).disk
    IN  murmur_set(created, murmur_open(created, FALSE).mmr, U64(ClockStart),
                   U64(ClockStart - 1), [n |-> 100, d |-> 1], 0, NoJunk).file

-----------------------------------------------------------------------------
(* The write path as a state machine: a file created and opened, then set, *)
(* get and the clock.  Every system call succeeds in these runs.           *)

\* The state after murmur_create on a fresh path and murmur_open.
Opened(specv, aggregation, x_files_factor, sets) ==
    LET created == murmur_create(NoFile, specv, aggregation, x_files_factor, 0)
    IN  /\ disk = created.disk
        /\ handle = murmur_open(created.disk, FALSE).mmr
        /\ fds = 1
        /\ now = U64(ClockStart)
        /\ call = [op |-> "open"]
        /\ budget = [sets |-> sets, gets |-> MaxGets, creates |-> 0]

Init ==
    \/ Opened(SpecTwo, agg_average, 0, MaxSets)
    \/ Opened(SpecThree, agg_average, 50, MaxSets)

InitSane == Opened(SpecSane, agg_average, 0, MaxSaneSets)

\* murmur_set(handle, timestamp, value).
Set(timestamp, value) ==
    /\ handle.open
    /\ budget.sets > 0
    /\ LET r == murmur_set(disk, handle, now, timestamp, value, 0, NoJunk)
       IN  /\ disk' = r.file
           /\ call' = [op |-> "set", timestamp |-> timestamp, value |-> value,
                       clock |-> now, ret |-> r.ret, arch |-> r.arch,
                       before |-> disk]
    /\ budget' = [budget EXCEPT !.sets = @ - 1]
    /\ UNCHANGED <<fds, handle, now>>

\* murmur_get(handle, timestamp, &value).  prev is the call made just before.
Get(timestamp) ==
    /\ handle.open
    /\ budget.gets > 0
    /\ LET r == murmur_get(disk, handle, now, timestamp, 0)
       IN  call' = [op |-> "get", timestamp |-> timestamp, clock |-> now,
                    ret |-> r.ret, arch |-> r.arch, value |-> r.value,
                    prev |-> IF call.op = "set" THEN call ELSE [op |-> call.op]]
    /\ budget' = [budget EXCEPT !.gets = @ - 1]
    /\ UNCHANGED <<disk, fds, handle, now>>

\* A second passes.
Tick ==
    /\ WLt(now, U64(ClockStart + MaxTicks))
    /\ now' = WAdd(now, U64(1))
    /\ call' = [op |-> "tick"]
    /\ UNCHANGED <<disk, fds, handle, budget>>

Next ==
    \/ \E timestamp \in TimestampInputs(handle, now), value \in ValueInputs :
          Set(timestamp, value)
    \/ \E timestamp \in TimestampInputs(handle, now) : Get(timestamp)
    \/ Tick

Spec == Init /\ [][Next]_vars

SpecSaneRun == InitSane /\ [][Next]_vars

-----------------------------------------------------------------------------
(* The ring of the finest archive: sets and gets at timestamps spread over  *)
(* its retention, with the clock of test_high_precision_full (no slot past *)
(* the end of the ring) and with the clock of test_sane (the ring wraps).  *)

\* One archive of 196608 s x 21846 points: the product is 2^32 + 131072.
SpecWrapped == <<Tok_196608_21846>>

MaxRingSets == 2
RingSteps == 12

\* mmr_test_time = (mmr->archives->retention * 5) - 10
RingClock(mmr) == U64(mmr.archives[1].retention * 5 - 10)

\* The clock, and every twelfth of the finest archive's retention back from
\* it to the full retention.
RingTimestamps(mmr, clock) ==
    {WSub(clock, U64(j * (mmr.archives[1].retention \div RingSteps))) :
        j \in 0..RingSteps}

InitRing ==
    \/ Opened(SpecSane, agg_average, 0, MaxRingSets)
    \/ \E specv \in {SpecSane, SpecWrapped} :
          LET created == murmur_create(NoFile, specv, agg_average, 0, 0).disk
          IN  /\ disk = created
              /\ handle = murmur_open(created, FALSE).mmr
              /\ fds = 1
              /\ now = RingClock(murmur_open(created, FALSE).mmr)
              /\ call = [op |-> "open"]
              /\ budget = [sets |-> MaxRingSets, gets |-> MaxGets, creates |-> 0]

NextRing ==
    \/ \E timestamp \in RingTimestamps(handle, now), value \in ValueInputs :
          Set(timestamp, value)
    \/ \E timestamp \in RingTimestamps(handle, now) : Get(timestamp)

SpecRing == InitRing /\ [][NextRing]_vars

-----------------------------------------------------------------------------
(* Windows that run past the end of the ring: sets on a file whose second  *)
(* archive takes two slots of the first, and on one whose second archive   *)
(* takes all four.                                                         *)

SpecFour == <<Tok_1s_4, Tok_4s_2>>

MaxWrapSets == 2

InitWrap ==
    \/ Opened(SpecThree, agg_last, 0, MaxWrapSets)
    \/ Opened(SpecFour, agg_sum, 0, MaxWrapSets)

NextWrap ==
    \E timestamp \in TimestampInputs(handle, now), value \in ValueInputs :
        Set(timestamp, value)

SpecWrap == InitWrap /\ [][NextWrap]_vars

-----------------------------------------------------------------------------
(* _murmur_aggregate on its own: one call with a method and a run of       *)
(* points, empty slots among them.                                         *)

MaxRun == 3

\* The points of the runs: empty slots and slots of two buckets, with the
\* values 0, 3 and 100.
AggPoints ==
    {PointBytes(U64(i), U64(v)) :
        i \in {0, ClockStart - 4, ClockStart - 2}, v \in {0, 3, 100}}

RECURSIVE RunsOf(_)
RunsOf(n) ==
    IF n = 1 THEN {<<pt>> : pt \in AggPoints}
    ELSE {Append(run, pt) : run \in RunsOf(n - 1), pt \in AggPoints}

PointRuns == UNION {RunsOf(n) : n \in 1..MaxRun}

\* The methods of enum aggregation_method, and 0, which takes the default
\* branch.
MethodInputs == {0, agg_average, agg_sum, agg_last, agg_max, agg_min}

InitAgg ==
    /\ disk = NoFile
    /\ handle = NoHandle
    /\ fds = 0
    /\ now = U64(ClockStart)
    /\ call = [op |-> "none"]
    /\ budget = [sets |-> 0, gets |-> 0, creates |-> 0]

\* val = _murmur_aggregate(aggregation, pointsc, pointsv), once in a run.
Aggregate(aggregation, pointsv) ==
    /\ call.op = "none"
    /\ call' = [op |-> "aggregate", aggregation |-> aggregation,
                pointsv |-> pointsv,
                val |-> murmur_aggregate(aggregation, Len(pointsv), pointsv)]
    /\ UNCHANGED <<disk, fds, handle, now, budget>>

NextAgg ==
    \E aggregation \in MethodInputs, pointsv \in PointRuns :
        Aggregate(aggregation, pointsv)

SpecAgg == InitAgg /\ [][NextAgg]_vars

-----------------------------------------------------------------------------
(* The spec parser on its own: one token PRECISION:RETENTION, each side a  *)
(* number written in decimal and a unit, a prefix of a unit name or        *)
(* nothing, handed to _murmur_parse_archive_spec.                          *)

\* The most years a side counts: the seconds stay below 2^31.
MaxYears == 2

NumberInputs == {0, 1, 2, 10, 60}
UnitInputs ==
    {<<>>, <<"s">>, <<"m">>, <<"h">>, <<"d">>, <<"w">>, <<"y">>,
     <<"m", "i", "n">>, SECONDS}

\* The sides of a token as number and unit.
SideInputs ==
    {side \in NumberInputs \X UnitInputs :
        side[2] # <<>> /\ side[2][1] = "y" => side[1] <= MaxYears}

\* The decimal text of a number, as the caller writes it in the token.
RECURSIVE Decimal(_)
Decimal(n) ==
    IF n < 10 THEN <<DigitChars[n + 1]>>
    ELSE Decimal(n \div 10) \o <<DigitChars[(n % 10) + 1]>>

InitParse ==
    /\ disk = NoFile
    /\ handle = NoHandle
    /\ fds = 0
    /\ now = U64(ClockStart)
    /\ call = [op |-> "none"]
    /\ budget = [sets |-> 0, gets |-> 0, creates |-> 0]

\* count = _murmur_parse_archive_spec(1, specv, &headers), once in a run.
Parse(left, right) ==
    /\ call.op = "none"
    /\ LET specv == <<Decimal(left[1]) \o left[2] \o <<":">>
                      \o Decimal(right[1]) \o right[2]>>
           r == ParseArchiveSpec(specv)
       IN  call' = [op |-> "parse", left |-> left, right |-> right,
                    specv |-> specv, res |-> r.res, count |-> r.count,
                    headers |-> r.headers]
    /\ UNCHANGED <<disk, fds, handle, now, budget>>

NextParse ==
    \E left \in SideInputs, right \in SideInputs : Parse(left, right)

SpecParse == InitParse /\ [][NextParse]_vars

-----------------------------------------------------------------------------
(* The write path with system calls that fail: in each murmur_set or       *)
(* murmur_get at most one call of lseek, read or write fails, and an array *)
(* that no read has filled holds any of the junk points.                   *)

MaxIoSets == 1
MaxCalls == 14

\* A point some earlier stack frame left behind.
JunkPoint == PointBytes(U64(7), U64(9))
JunkInputs == {NoJunk, JunkPoint}

\* The file of three archives in which two points were set eight seconds
\* (two cycles of the finest ring) before the runs start.
SeededFile ==
    LET created == murmur_create(NoFile, SpecThree, agg_average, 100, 0).disk
        mmr == murmur_open(created, FALSE).mmr
        first == murmur_set(created, mmr, U64(ClockStart - 8), U64(ClockStart - 9),
                            [n |-> 100, d |-> 1], 0, NoJunk).file
    IN  murmur_set(first, mmr, U64(ClockStart - 8), U64(ClockStart - 10),
                   [n |-> 3, d |-> 1], 0, NoJunk).file

InitIo ==
    \/ Opened(SpecThree, agg_average, 100, MaxIoSets)
    \/ /\ disk = SeededFile
       /\ handle = murmur_open(SeededFile, FALSE).mmr
       /\ fds = 1
       /\ now = U64(ClockStart)
       /\ call = [op |-> "open"]
       /\ budget = [sets |-> MaxIoSets, gets |-> MaxGets, creates |-> 0]

\* murmur_set(handle, timestamp, value) in which the system call number
\* FailCall fails.  calls is the number of system calls the call made.  As in
\* the tests, the sets of a run come before its gets.
SetIo(timestamp, value, FailCall, junk) ==
    /\ handle.open
    /\ budget.sets > 0
    /\ budget.gets = MaxGets
    /\ LET r == murmur_set(disk, handle, now, timestamp, value, FailCall, junk)
       IN  /\ disk' = r.file
           /\ call' = [op |-> "set", timestamp |-> timestamp, value |-> value,
                       clock |-> now, ret |-> r.ret, arch |-> r.arch,
                       fail |-> FailCall, calls |-> r.calls, before |-> disk]
    /\ budget' = [budget EXCEPT !.sets = @ - 1]
    /\ UNCHANGED <<fds, handle, now>>

\* murmur_get(handle, timestamp, &value) in which the system call number
\* FailCall fails.
GetIo(timestamp, FailCall) ==
    /\ handle.open
    /\ budget.gets > 0
    /\ LET r == murmur_get(disk, handle, now, timestamp, FailCall)
       IN  call' = [op |-> "get", timestamp |-> timestamp, clock |-> now,
                    ret |-> r.ret, arch |-> r.arch, value |-> r.value,
                    fail |-> FailCall, before |-> disk]
    /\ budget' = [budget EXCEPT !.gets = @ - 1]
    /\ UNCHANGED <<disk, fds, handle, now>>

NextIo ==
    \/ \E timestamp \in TimestampInputs(handle, now), value \in ValueInputs,
          FailCall \in 0..MaxCalls, junk \in JunkInputs :
          SetIo(timestamp, value, FailCall, junk)
    \/ \E timestamp \in TimestampInputs(handle, now), FailCall \in 0..2 :
          GetIo(timestamp, FailCall)

SpecIo == InitIo /\ [][NextIo]_vars

-----------------------------------------------------------------------------
(* murmur_dump step by step on a file just opened: the descriptor stands   *)
(* behind the archive headers murmur_open read, each round of the loop is  *)
(* one read(2) into p and, unless it returned 0, one line printed.  A read *)
(* may fail with -1, which moves nothing and leaves p as it was.           *)

DumpSpecs == {SpecTwo, SpecThree, SpecFour, SpecSane}
DumpFiles ==
    {murmur_create(NoFile, specv, 0, 0, 0).disk : specv \in DumpSpecs}
        \cup {SeededFile}

InitDump ==
    /\ disk \in DumpFiles
    /\ handle = murmur_open(disk, FALSE).mmr
    /\ fds = 1
    /\ now = U64(ClockStart)
    /\ call = [op |-> "open"]
    /\ budget = [sets |-> 0, gets |-> 0, creates |-> 0]

\* murmur_dump(mmr) up to the loop: murmur_dump_info prints and returns 0,
\* then p is declared and holds what the stack held.
Dump(junk) ==
    /\ handle.open
    /\ call.op = "open"
    /\ call' = [op |-> "dump", pc |-> "read",
                pos |-> SizeofHeader + handle.archive_count * SizeofArchiveHeader,
                p |-> junk, n |-> 0]
    /\ UNCHANGED <<disk, fds, handle, now, budget>>

\* while (read(mmr->fd, &p, sizeof(p)) != 0): n is what read returned, the
\* bytes it got or -1; only 0 leaves the loop and returns.
DumpRead(fails) ==
    /\ call.op = "dump"
    /\ call.pc = "read"
    /\ LET got == ReadAt(disk, call.pos, SizeofPoint)
           n == IF fails THEN -1 ELSE Len(got)
       IN  call' = IF fails
                   THEN [call EXCEPT !.n = -1, !.pc = "print"]
                   ELSE [call EXCEPT !.n = n,
                                     !.pos = @ + n,
                                     !.p = got \o SubSeq(@, n + 1, SizeofPoint),
                                     !.pc = IF n = 0 THEN "returned" ELSE "print"]
    /\ UNCHANGED <<disk, fds, handle, now, budget>>

\* The body of the loop: M_INFO prints p, and the loop reads again.
DumpPrint ==
    /\ call.op = "dump"
    /\ call.pc = "print"
    /\ call' = [call EXCEPT !.pc = "read"]
    /\ UNCHANGED <<disk, fds, handle, now, budget>>

DumpStep == (\E fails \in BOOLEAN : DumpRead(fails)) \/ DumpPrint

NextDump ==
    \/ \E junk \in JunkInputs : Dump(junk)
    \/ \E fails \in BOOLEAN : DumpRead(fails)
    \/ DumpPrint

\* The process keeps running: a step of the loop that can be taken is taken.
SpecDump == InitDump /\ [][NextDump]_vars /\ WF_vars(DumpStep)


-----------------------------------------------------------------------------
(* Creating and opening as a state machine: a path that holds nothing or   *)
(* the file of an earlier run, then murmur_create, murmur_open and         *)
(* murmur_close.                                                           *)

InitCreate ==
    /\ disk \in {NoFile, StaleFile}
    /\ handle = NoHandle
    /\ fds = 0
    /\ now = U64(ClockStart)
    /\ call = [op |-> "none"]
    /\ budget = [sets |-> 0, gets |-> 0, creates |-> MaxCreates]

\* murmur_create(path, specc, specv, aggregation, x_files_factor).  A
\* descriptor the call does not close stays open in the process; a division
\* by zero ends the process, and with it every descriptor and the handle.
Create(specv, aggregation, x_files_factor, FailCall) ==
    /\ budget.creates > 0
    /\ LET r == murmur_create(disk, specv, aggregation, x_files_factor, FailCall)
       IN  /\ disk' = r.disk
           /\ fds' = IF r.fpe THEN 0 ELSE IF r.closed THEN fds ELSE fds + 1
           /\ handle' = IF r.fpe THEN NoHandle ELSE handle
           /\ call' = [op |-> "create", specv |-> specv,
                       aggregation |-> aggregation,
                       x_files_factor |-> x_files_factor, fail |-> FailCall,
                       ret |-> r.ret, fpe |-> r.fpe, closed |-> r.closed,
                       freed |-> r.freed, before |-> disk]
    /\ budget' = [budget EXCEPT !.creates = @ - 1]
    /\ UNCHANGED now

\* mmr = murmur_open(path), the caller holding no handle.
Open(FailOpen) ==
    /\ ~handle.open
    /\ call.op # "open"
    /\ LET r == murmur_open(disk, FailOpen)
       IN  /\ handle' = r.mmr
           /\ fds' = fds + r.opens - r.closes
           /\ call' = [op |-> "open", fail |-> FailOpen, opens |-> r.opens,
                       closes |-> r.closes, allocs |-> r.allocs, frees |-> r.frees,
                       prev |-> IF call.op = "create" THEN call
                                ELSE [op |-> call.op]]
    /\ UNCHANGED <<disk, now, budget>>

\* murmur_close(mmr).
Close ==
    /\ handle.open
    /\ handle' = NoHandle
    /\ fds' = fds - 1
    /\ call' = [op |-> "close"]
    /\ UNCHANGED <<disk, now, budget>>

NextCreate ==
    \/ \E specv \in SpecInputs, aggregation \in AggregationInputs,
          x_files_factor \in FactorInputs,
          FailCall \in {0, CallOpen, CallWriteHeader, CallWriteArchives, CallFallocate} :
          Create(specv, aggregation, x_files_factor, FailCall)
    \/ \E FailOpen \in BOOLEAN : Open(FailOpen)
    \/ Close

SpecCreate == InitCreate /\ [][NextCreate]_vars

-----------------------------------------------------------------------------
(* Opening what is found at path: nothing, a murmur file, the same file cut *)
(* short at every length of its header and archive directory, and a header *)
(* that counts no archive.                                                 *)

ZeroCountFile == File(SizeofHeader, HeaderBytes(agg_average, U64(0), 0, 0))

OpenFiles ==
    {NoFile, StaleFile, ZeroCountFile}
        \cup {File(n, Upto(StaleFile, n)) :
                 n \in 0..(SizeofHeader + SizeofArchiveHeader * Len(SpecThree) - 1)}

InitOpen ==
    /\ disk \in OpenFiles
    /\ handle = NoHandle
    /\ fds = 0
    /\ now = U64(ClockStart)
    /\ call = [op |-> "none"]
    /\ budget = [sets |-> 0, gets |-> 0, creates |-> 0]

NextOpen ==
    \/ \E FailOpen \in BOOLEAN : Open(FailOpen)
    \/ Close

SpecOpen == InitOpen /\ [][NextOpen]_vars

-----------------------------------------------------------------------------
(* What the properties below are stated with: exact arithmetic and the     *)
(* slots as the file holds them.                                           *)

\* The product a * b of two 32-bit values, exact, as a 64-bit word.
Product(a, b) ==
    LET col(c) == LET term[i \in 0..3] == ByteOf(a, i) * ByteOf(b, c - i)
                  IN  (IF c <= 3 THEN term[0] ELSE 0)
                        + (IF c >= 1 /\ c <= 4 THEN term[1] ELSE 0)
                        + (IF c >= 2 /\ c <= 5 THEN term[2] ELSE 0)
                        + (IF c >= 3 /\ c <= 6 THEN term[3] ELSE 0)
        t0 == col(0)
        t1 == col(1) + t0 \div 256
        t2 == col(2) + t1 \div 256
        t3 == col(3) + t2 \div 256
        t4 == col(4) + t3 \div 256
        t5 == col(5) + t4 \div 256
        t6 == col(6) + t5 \div 256
        t7 == t6 \div 256
    IN  <<t0 % 256, t1 % 256, t2 % 256, t3 % 256,
          t4 % 256, t5 % 256, t6 % 256, t7 % 256>>

\* 0 < clock - timestamp <= max_retention, in 64-bit arithmetic.
InHorizon(mmr, clock, timestamp) ==
    /\ WLt(timestamp, clock)
    /\ ~WLt(mmr.max_retention, WSub(clock, timestamp))

\* The fractions x and y are the same number.
SameValue(x, y) == x.d # 0 /\ y.d # 0 /\ x.n * y.d = y.n * x.d

\* The index of the slot of arch a timestamp falls in, and the slot with
\* index j (modulo the ring) as the file f holds it.
SlotIndex(arch, timestamp) ==
    (murmur_seek_to_point(arch, timestamp).seeked - arch.offset) \div SizeofPoint

SlotOf(f, arch, j) ==
    ReadAt(f, arch.offset + SizeofPoint * (j % arch.points), SizeofPoint)

\* The start of the bucket of arch a timestamp falls in.
BucketStart(arch, timestamp) ==
    WSub(timestamp, U64(WMod(timestamp, arch.seconds_per_point)))

\* The k slots of arch from the slot of timestamp on, in ring order.
Window(f, arch, timestamp, k) ==
    [j \in 1..k |-> SlotOf(f, arch, SlotIndex(arch, timestamp) + j - 1)]

RECURSIVE SumOfValues(_, _)
SumOfValues(slots, k) ==
    IF k = 0 THEN 0 ELSE SumOfValues(slots, k - 1) + PointValue(slots[k])

\* The archives a spec names, as the parser reads the tokens.
Given(specv) == ParseArchiveSpec(specv).headers

RECURSIVE SumOfPoints(_)
SumOfPoints(hs) == IF hs = <<>> THEN 0 ELSE hs[1].points + SumOfPoints(Tail(hs))

\* The size of the file murmur_create is to leave for a spec.
SizeFor(specv) ==
    SizeofHeader + SizeofArchiveHeader * Len(Given(specv))
        + SizeofPoint * SumOfPoints(Given(specv))

\* A and B are side by side once the archives are sorted by precision.
Adjacent(hs, a, b) ==
    /\ a # b
    /\ hs[a].seconds_per_point <= hs[b].seconds_per_point
    /\ ~\E m \in 1..Len(hs) :
          /\ hs[a].seconds_per_point < hs[m].seconds_per_point
          /\ hs[m].seconds_per_point < hs[b].seconds_per_point

\* The pair (A, B) breaks one of the rules V1 to V4.
BreaksRule(A, B) ==
    \/ A.seconds_per_point = B.seconds_per_point
    \/ B.seconds_per_point % A.seconds_per_point # 0
    \/ WLt(Product(B.seconds_per_point, B.points),
           Product(A.seconds_per_point, A.points))
    \/ A.points < B.seconds_per_point \div A.seconds_per_point

\* A spec that parses, with no zero precision, and with an adjacent pair
\* that breaks a rule.
Violating(specv) ==
    /\ ParseArchiveSpec(specv).res = "ok"
    /\ \A a \in 1..Len(Given(specv)) : Given(specv)[a].seconds_per_point > 0
    /\ \E a, b \in 1..Len(Given(specv)) :
          /\ Adjacent(Given(specv), a, b)
          /\ BreaksRule(Given(specv)[a], Given(specv)[b])

-----------------------------------------------------------------------------
(* The properties.                                                         *)

\* C1: a murmur_get made right after a murmur_set that returned 0, for the
\* same timestamp t under the same clock with 0 < now - t <= max_retention,
\* returns 0 and yields exactly the value that was set.
C1_RoundTrip ==
    (/\ call.op = "get"
     /\ call.prev.op = "set"
     /\ call.prev.ret = 0
     /\ call.prev.timestamp = call.timestamp
     /\ call.prev.clock = call.clock
     /\ InHorizon(handle, call.clock, call.timestamp))
    => (call.ret = 0 /\ SameValue(call.value, call.prev.value))

\* C1 happens: a value set into the second archive of a file that already
\* held a point, and read back.
C1_Witness ==
    /\ call.op = "get"
    /\ call.prev.op = "set"
    /\ call.prev.ret = 0
    /\ call.prev.timestamp = call.timestamp
    /\ call.prev.clock = call.clock
    /\ InHorizon(handle, call.clock, call.timestamp)
    /\ call.prev.arch = 2
    /\ Len(call.prev.before.bytes) > handle.archives[1].offset
    /\ call.ret = 0
    /\ call.value = [n |-> 100, d |-> 1]

\* C2: murmur_set and murmur_get return -1 for every timestamp after the
\* clock and for every timestamp more than max_retention before it.
C2_DomainError ==
    (/\ call.op \in {"set", "get"}
     /\ \/ WLt(call.clock, call.timestamp)
        \/ /\ WLt(call.timestamp, call.clock)
           /\ WLt(handle.max_retention, WSub(call.clock, call.timestamp)))
    => call.ret = -1

\* C3: murmur_set of the current time returns 0, and the murmur_get of the
\* current time that follows returns 0 and the value set.
C3_SetAtNow ==
    /\ (call.op = "set" /\ call.timestamp = call.clock) => call.ret = 0
    /\ (/\ call.op = "get"
        /\ call.timestamp = call.clock
        /\ call.prev.op = "set"
        /\ call.prev.timestamp = call.timestamp
        /\ call.prev.clock = call.clock)
       => (call.ret = 0 /\ SameValue(call.value, call.prev.value))

\* C4: after a murmur_set that returned 0 with primary archive P, for every
\* archive A from P down and the archive B below it, the slot of B for t
\* holds the interval t - (t mod B.seconds_per_point) and the value the
\* aggregation method gives for the k slots of A from the slot of t on.
C4_PropagationResult ==
    (call.op = "set" /\ call.ret = 0)
    => \A i \in call.arch..(handle.archive_count - 1) :
          LET A == handle.archives[i]
              B == handle.archives[i + 1]
              k == B.seconds_per_point \div A.seconds_per_point
              val == murmur_aggregate(handle.aggregation, k,
                                      Window(disk, A, call.timestamp, k))
              slot == SlotOf(disk, B, SlotIndex(B, call.timestamp))
          IN  /\ PointInterval(slot) = BucketStart(B, call.timestamp)
              /\ PointValue(slot) * val.d = val.n

\* C5: with average aggregation, when the murmur_set that just returned 0
\* wrote into the finest archive A and each of the k buckets of A that make
\* up the bucket of B for t has been set, the slot of B for that bucket holds
\* the mean of the k values.
C5_FilledBucketMean ==
    (/\ call.op = "set"
     /\ call.ret = 0
     /\ call.arch = 1
     /\ handle.aggregation = agg_average
     /\ handle.archive_count > 1)
    => LET A == handle.archives[1]
           B == handle.archives[2]
           k == B.seconds_per_point \div A.seconds_per_point
           start == BucketStart(B, call.timestamp)
           fine == [j \in 1..k |-> WAdd(start, U64((j - 1) * A.seconds_per_point))]
           slots == [j \in 1..k |-> SlotOf(disk, A, SlotIndex(A, fine[j]))]
       IN  (\A j \in 1..k : PointInterval(slots[j]) = fine[j])
           => PointValue(SlotOf(disk, B, SlotIndex(B, start))) * k
                 = SumOfValues(slots, k)

\* C6: after one murmur_set of the value 100 that returned 0, into a file of
\* 10s x 6 and 60s x 5 points in which no slot was set, the value in the slot
\* of the second archive for that timestamp, times 6, is 100.
C6_AverageExact ==
    (/\ call.op = "set"
     /\ call.ret = 0
     /\ call.arch = 1
     /\ call.value = [n |-> 100, d |-> 1]
     /\ Len(call.before.bytes) <= handle.archives[1].offset)
    => PointValue(SlotOf(disk, handle.archives[2],
                         SlotIndex(handle.archives[2], call.timestamp))) * 6 = 100

\* C7: murmur_create returns -1 for every spec in which, once sorted by
\* seconds_per_point, an adjacent pair breaks V1, V2, V3 or V4.
C7_ViolationsRejected ==
    (call.op = "create" /\ Violating(call.specv))
    => (call.ret = -1 /\ ~call.fpe)

\* C8: murmur_open after a murmur_create that returned 0 on a fresh path
\* gives a handle with exactly the given archives in strictly ascending
\* precision, the offsets laid out from 14 + 12 * N, retention = spp * points,
\* size = 16 * points, each archive linked to the next and the last to none,
\* and the aggregation (0 as 1), x_files_factor and archive_count given.
C8_CreateOpenRoundTrip ==
    (/\ call.op = "open"
     /\ ~call.fail
     /\ call.prev.op = "create"
     /\ call.prev.ret = 0
     /\ call.prev.before = NoFile)
    => LET given == Given(call.prev.specv)
           N == Len(given)
           same(g, a) == /\ g.seconds_per_point = a.seconds_per_point
                         /\ g.points = a.points
       IN  /\ handle.open
           /\ handle.archive_count = N
           /\ Len(handle.archives) = N
           /\ handle.aggregation
                 = (IF call.prev.aggregation = 0 THEN agg_average
                    ELSE call.prev.aggregation)
           /\ handle.x_files_factor = call.prev.x_files_factor
           /\ \A g \in 1..N : \E a \in 1..N : same(given[g], handle.archives[a])
           /\ \A a \in 1..N :
                 LET arch == handle.archives[a] IN
                 /\ a < N => arch.seconds_per_point
                                < handle.archives[a + 1].seconds_per_point
                 /\ arch.offset
                       = (IF a = 1 THEN SizeofHeader + SizeofArchiveHeader * N
                          ELSE handle.archives[a - 1].offset
                                  + SizeofPoint * handle.archives[a - 1].points)
                 /\ U64(arch.retention) = Product(arch.seconds_per_point, arch.points)
                 /\ arch.size = SizeofPoint * arch.points
                 /\ arch.lower = (IF a < N THEN a + 1 ELSE 0)

\* C9: after a murmur_create that returned 0 the file is exactly
\* 14 + 12 * N + 16 * (the points of all archives) bytes long, whether or not
\* the path held a file before.
C9_FileSize ==
    (call.op = "create" /\ call.ret = 0) => disk.size = SizeFor(call.specv)

\* C10: after a murmur_create that returned 0 every byte of every point slot
\* is zero, whatever the path held before.
C10_SlotsZero ==
    (call.op = "create" /\ call.ret = 0)
    => LET first == SizeofHeader + SizeofArchiveHeader * Len(Given(call.specv))
       IN  \A off \in first..(Min(Len(disk.bytes), SizeFor(call.specv)) - 1) :
              ByteAt(disk, off) = 0

\* The spec is a configuration error: a token does not parse, no archive is
\* given, or an adjacent pair breaks a rule.
ConfigError(specv) ==
    \/ ParseArchiveSpec(specv).res = "error"
    \/ Len(Given(specv)) = 0
    \/ Violating(specv)

\* C11: a murmur_create that fails with a configuration error, every system
\* call succeeding, leaves the path as it was: no file is created where none
\* was, and a file that was there is not modified.
C11_ConfigErrorLeavesDisk ==
    (/\ call.op = "create"
     /\ call.fail = 0
     /\ call.ret = -1
     /\ ConfigError(call.specv))
    => disk = call.before

\* C12: for two murmur_set calls in a row that returned 0 with the same
\* primary archive A, the two timestamps have the same slot of A exactly when
\* their bucket starts are congruent modulo A's retention; when the buckets
\* are the same the slot holds the point of the later set, and when they
\* differ and are less than one retention apart the slot of the earlier set
\* still holds its point.
C12_SlotAddressing ==
    [][(/\ call.op = "set" /\ call.ret = 0
        /\ call'.op = "set" /\ call'.ret = 0
        /\ call.arch = call'.arch)
       => LET A == handle.archives[call'.arch]
              b1 == BucketStart(A, call.timestamp)
              b2 == BucketStart(A, call'.timestamp)
              s1 == SlotOf(disk', A, SlotIndex(A, call.timestamp))
              s2 == SlotOf(disk', A, SlotIndex(A, call'.timestamp))
              apart == IF WLt(b1, b2) THEN WSub(b2, b1) ELSE WSub(b1, b2)
          IN  /\ (SlotIndex(A, call.timestamp) = SlotIndex(A, call'.timestamp))
                    <=> (WMod(b1, A.retention) = WMod(b2, A.retention))
              /\ PointInterval(s2) = b2
              /\ PointValue(s2) * call'.value.d = call'.value.n
              /\ (b1 # b2 /\ WLt(apart, U64(A.retention)))
                    => /\ PointInterval(s1) = b1
                       /\ PointValue(s1) * call.value.d = call.value.n]_vars

\* The slots of A from the slot of timestamp on that hold a point (their
\* interval is not 0), among the k of the window.
KnownIn(f, A, timestamp, k) ==
    Cardinality({j \in 1..k : PointInterval(Window(f, A, timestamp, k)[j]) # U64(0)})

\* C13: after a murmur_set that returned 0 with no failing system call, for
\* every archive A from the primary down and the archive B below it, when
\* fewer than ceil(k * x_files_factor / 100) of the k slots of A's window
\* hold a point, the slot of B for t is what it was before the call.
C13_FactorEnforced ==
    (call.op = "set" /\ call.ret = 0 /\ call.fail = 0)
    => \A i \in call.arch..(handle.archive_count - 1) :
          LET A == handle.archives[i]
              B == handle.archives[i + 1]
              k == B.seconds_per_point \div A.seconds_per_point
          IN  (KnownIn(disk, A, call.timestamp, k) * 100 < k * handle.x_files_factor)
              => SlotOf(disk, B, SlotIndex(B, call.timestamp))
                    = SlotOf(call.before, B, SlotIndex(B, call.timestamp))

\* C14: a murmur_set in which a system call made after the primary write
\* (the third call or a later one) fails returns -1, and the file it leaves
\* does not depend on what the points array held where no read stored data.
C14_PropagationFailure ==
    (call.op = "set" /\ call.fail >= 3 /\ call.fail <= call.calls)
    => /\ call.ret = -1
       /\ \A junk \in JunkInputs :
             disk = murmur_set(call.before, handle, call.clock, call.timestamp,
                               call.value, call.fail, junk).file

\* The window of A that is aggregated into B for a timestamp runs past the
\* end of A's ring, so that it takes two reads.
WindowWraps(A, B, timestamp) ==
    SlotIndex(A, timestamp) + B.seconds_per_point \div A.seconds_per_point > A.points

\* The number of the system call that writes the slot of archive j in a
\* murmur_set with primary archive P: a seek and a write for each archive,
\* and a seek and a read for each part of a window read.
RECURSIVE WriteCall(_, _, _, _)
WriteCall(mmr, P, j, timestamp) ==
    IF j = P THEN 2
    ELSE WriteCall(mmr, P, j - 1, timestamp)
            + (IF WindowWraps(mmr.archives[j - 1], mmr.archives[j], timestamp)
               THEN 4 ELSE 2)
            + 2

\* C15: a murmur_set of a non-negative integer value v that returns -1
\* because a system call failed after the primary write leaves the primary
\* slot holding (t - t mod spp, v), and every
\* coarser archive whose slot was written before the failing call holds what
\* the call without a failure writes there.
C15_NoRollback ==
    (call.op = "set" /\ call.ret = -1 /\ call.arch # 0 /\ call.fail >= 3)
    => LET P == handle.archives[call.arch]
           primary == SlotOf(disk, P, SlotIndex(P, call.timestamp))
           whole == murmur_set(call.before, handle, call.clock, call.timestamp,
                               call.value, 0, NoJunk).file
       IN  /\ PointInterval(primary) = BucketStart(P, call.timestamp)
           /\ PointValue(primary) * call.value.d = call.value.n
           /\ \A j \in (call.arch + 1)..handle.archive_count :
                 WriteCall(handle, call.arch, j, call.timestamp) < call.fail
                 => /\ SlotOf(disk, handle.archives[j],
                              SlotIndex(handle.archives[j], call.timestamp))
                          = SlotOf(whole, handle.archives[j],
                                   SlotIndex(handle.archives[j], call.timestamp))
                    /\ PointInterval(SlotOf(disk, handle.archives[j],
                              SlotIndex(handle.archives[j], call.timestamp)))
                          = BucketStart(handle.archives[j], call.timestamp)

\* C15 happens: the propagation from the second archive into the third
\* failed, after the first and the second archive were written on a file that
\* already held points.
C15_Witness ==
    /\ call.op = "set"
    /\ call.ret = -1
    /\ call.arch = 1
    /\ call.fail > WriteCall(handle, 1, 2, call.timestamp)
    /\ call.fail <= call.calls
    /\ call.value = [n |-> 100, d |-> 1]
    /\ call.before = SeededFile
    /\ PointValue(SlotOf(disk, handle.archives[1],
                         SlotIndex(handle.archives[1], call.timestamp))) = 100
    /\ PointInterval(SlotOf(disk, handle.archives[2],
                            SlotIndex(handle.archives[2], call.timestamp)))
          = BucketStart(handle.archives[2], call.timestamp)
    /\ SlotOf(disk, handle.archives[2], SlotIndex(handle.archives[2], call.timestamp))
          # SlotOf(call.before, handle.archives[2],
                   SlotIndex(handle.archives[2], call.timestamp))

\* C16: a murmur_set or murmur_get for which _murmur_get_archive finds no
\* archive (the timestamp is rejected) returns -1 and leaves every byte of
\* the file as it was, whichever system call was to fail.
C16_RejectedChangesNothing ==
    (/\ call.op \in {"set", "get"}
     /\ murmur_get_archive(handle, call.clock, call.timestamp).ret # 0)
    => (call.ret = -1 /\ disk = call.before)

\* C16 happens: a set of a timestamp older than max_retention, rejected on a
\* file that holds points.
C16_Witness ==
    /\ call.op = "set"
    /\ call.ret = -1
    /\ call.arch = 0
    /\ WLt(handle.max_retention, WSub(call.clock, call.timestamp))
    /\ WLt(call.timestamp, call.clock)
    /\ call.before = SeededFile
    /\ disk = SeededFile

\* The file murmur_create wrote for the runs with failing system calls.
CreatedIo == murmur_create(NoFile, SpecThree, agg_average, 100, 0).disk

\* C17: whatever murmur_set and murmur_get calls were made on the opened
\* file, with or without a failing system call, the file is as long as
\* murmur_create left it and its first 14 + 12 * N bytes are the ones
\* murmur_create wrote; and a murmur_get leaves every byte as it was.
C17_HeaderAndLengthKept ==
    /\ disk.exists
    /\ disk.size = CreatedIo.size
    /\ ReadAt(disk, 0, SizeofHeader + SizeofArchiveHeader * handle.archive_count)
          = ReadAt(CreatedIo, 0,
                   SizeofHeader + SizeofArchiveHeader * handle.archive_count)
    /\ call.op = "get" => disk = call.before

\* C17 happens: a set that returned 0 wrote the last slot of the first
\* archive and the slots of both archives below it, in a file that held
\* points already.
C17_Witness ==
    /\ call.op = "set"
    /\ call.ret = 0
    /\ call.arch = 1
    /\ call.before = SeededFile
    /\ SlotIndex(handle.archives[1], call.timestamp) = handle.archives[1].points - 1
    /\ \A j \in 1..3 :
          SlotOf(disk, handle.archives[j], SlotIndex(handle.archives[j], call.timestamp))
            # SlotOf(call.before, handle.archives[j],
                     SlotIndex(handle.archives[j], call.timestamp))
    /\ disk.size = CreatedIo.size
    /\ handle.archive_count = 3

\* murmur_open has to give up on the file f: the header is short, it counts
\* no archive, or the file ends before the last archive header.
Unreadable(f) ==
    \/ f.size < SizeofHeader
    \/ LET count == be32toh(ReadAt(f, 10, 4))
       IN  count = 0 \/ f.size < SizeofHeader + SizeofArchiveHeader * count

\* C18: a murmur_open of a path that cannot be opened or of an unreadable
\* file returns no handle, has closed every descriptor it opened exactly once
\* and freed every block it allocated, so that the process holds no
\* descriptor; a murmur_open that succeeds closes and frees nothing and
\* leaves one descriptor open, which murmur_close closes.
C18_OpenReleases ==
    /\ call.op = "open"
          => IF call.fail \/ ~disk.exists \/ Unreadable(disk)
             THEN /\ ~handle.open
                  /\ call.closes = call.opens
                  /\ call.opens = (IF call.fail \/ ~disk.exists THEN 0 ELSE 1)
                  /\ call.frees = call.allocs
                  /\ fds = 0
             ELSE /\ handle.open
                  /\ call.opens = 1
                  /\ call.closes = 0
                  /\ call.frees = 0
                  /\ fds = 1
    /\ call.op = "close" => (~handle.open /\ fds = 0)

\* C18 happens: the file ends inside its second archive header, after the
\* handle and the archive array were allocated.
C18_Witness ==
    /\ call.op = "open"
    /\ ~call.fail
    /\ disk.size = SizeofHeader + SizeofArchiveHeader + 5
    /\ ~handle.open
    /\ call.allocs = 2
    /\ call.frees = 2
    /\ call.closes = 1
    /\ fds = 0

\* C19: a murmur_get of an accepted timestamp in which no system call fails
\* returns 0 and the value the slot located for the timestamp holds,
\* whatever interval the slot holds.
C19_GetIgnoresInterval ==
    (/\ call.op = "get"
     /\ call.fail = 0
     /\ murmur_get_archive(handle, call.clock, call.timestamp).ret = 0)
    => LET A == handle.archives[call.arch]
       IN  /\ call.ret = 0
           /\ SameValue(call.value,
                        [n |-> PointValue(SlotOf(disk, A, SlotIndex(A, call.timestamp))),
                         d |-> 1])

\* C19 happens: the slot holds the point of an earlier cycle of the ring, set
\* eight seconds before the timestamp asked for, and its value 100 is
\* returned.
C19_Witness ==
    /\ call.op = "get"
    /\ call.fail = 0
    /\ call.ret = 0
    /\ call.arch = 1
    /\ InHorizon(handle, call.clock, call.timestamp)
    /\ PointInterval(SlotOf(disk, handle.archives[1],
                            SlotIndex(handle.archives[1], call.timestamp)))
          = WSub(call.timestamp, U64(8))
    /\ call.value = [n |-> 100, d |-> 1]

\* C20: for a murmur_set or murmur_get of a timestamp with
\* 0 < clock - timestamp <= max_retention, the archive used is the first one
\* whose retention is greater than clock - timestamp, so that its retention
\* exceeds the difference; and a murmur_get that follows a murmur_set of the
\* same timestamp under the same clock uses the archive the set used.
C20_TargetSelection ==
    /\ (/\ call.op \in {"set", "get"}
        /\ InHorizon(handle, call.clock, call.timestamp))
       => LET diff == WSub(call.clock, call.timestamp)
              fits == {i \in 1..handle.archive_count :
                          WLt(diff, U64(handle.archives[i].retention))}
          IN  /\ call.arch \in fits
              /\ \A j \in fits : call.arch <= j
    /\ (/\ call.op = "get"
        /\ call.prev.op = "set"
        /\ call.prev.timestamp = call.timestamp
        /\ call.prev.clock = call.clock)
       => call.arch = call.prev.arch

\* The slots of A for the k buckets of A that make up the bucket of B a
\* timestamp falls in, from the first of them on.
AlignedWindow(f, A, B, timestamp, k) ==
    [j \in 1..k |->
        SlotOf(f, A, SlotIndex(A, WAdd(BucketStart(B, timestamp),
                                       U64((j - 1) * A.seconds_per_point))))]

\* C21: after a murmur_set that returned 0, for every archive A from the
\* primary down and the archive B below it, the value in the slot of B for t
\* is the one the aggregation method gives (cut to an integer as it is
\* stored) for A's slots of the k buckets I, I + A.spp, ..., I + (k-1) * A.spp
\* with I = t - (t mod B.spp).
C21_WindowAligned ==
    (call.op = "set" /\ call.ret = 0)
    => \A i \in call.arch..(handle.archive_count - 1) :
          LET A == handle.archives[i]
              B == handle.archives[i + 1]
              k == B.seconds_per_point \div A.seconds_per_point
              val == murmur_aggregate(handle.aggregation, k,
                                      AlignedWindow(disk, A, B, call.timestamp, k))
          IN  PointValue(SlotOf(disk, B, SlotIndex(B, call.timestamp)))
                 = val.n \div val.d

\* C22: whatever the file holds, for every archive A with an archive B below
\* it and every timestamp, the k points the propagation reads from A are, in
\* this order, A's slots s, s + 1, ..., s + k - 1 taken modulo A's number of
\* points, s being the slot of the timestamp.
C22_RingWrapRead ==
    \A i \in 1..(handle.archive_count - 1) :
       \A timestamp \in TimestampInputs(handle, now) :
          LET A == handle.archives[i]
              B == handle.archives[i + 1]
              k == B.seconds_per_point \div A.seconds_per_point
              s == SlotIndex(A, timestamp)
              points == Points(WindowPoints(disk, A,
                                            murmur_seek_to_point(A, timestamp).seeked,
                                            k * SizeofPoint), k)
          IN  /\ Len(points) = k
              /\ \A j \in 0..(k - 1) :
                    points[j + 1]
                      = ReadAt(disk, A.offset + SizeofPoint * ((s + j) % A.points),
                               SizeofPoint)

\* C22 happens: a set into the last of the four slots of the first archive,
\* whose window of four runs three slots past the end of the ring, after a
\* set into the second slot; the sum of both values was written below.
C22_Witness ==
    /\ call.op = "set"
    /\ call.ret = 0
    /\ call.arch = 1
    /\ handle.archive_count = 2
    /\ handle.archives[2].seconds_per_point = 4
    /\ SlotIndex(handle.archives[1], call.timestamp) = 3
    /\ WindowWraps(handle.archives[1], handle.archives[2], call.timestamp)
    /\ PointValue(SlotOf(disk, handle.archives[1], 1)) = 100
    /\ PointValue(SlotOf(disk, handle.archives[1], 3)) = 3
    /\ PointValue(SlotOf(disk, handle.archives[2],
                         SlotIndex(handle.archives[2], call.timestamp))) = 103

\* The values of a run of points.
ValuesOf(pointsv) == {PointValue(pointsv[i]) : i \in 1..Len(pointsv)}

\* C23: for a run of k points, average (and any method the enum does not
\* name) gives the sum of all k values over k, sum the sum of all k values,
\* max the largest and min the smallest of all k values, the empty slots
\* counted with the value they hold.
C23_AggregatorReference ==
    call.op = "aggregate"
    => LET k == Len(call.pointsv)
           total == SumOfValues(call.pointsv, k)
           all == ValuesOf(call.pointsv)
       IN  /\ call.aggregation \in {0, agg_average}
                => call.val.n * k = total * call.val.d
           /\ call.aggregation = agg_sum => call.val.n = total * call.val.d
           /\ call.aggregation = agg_max
                => \E v \in all : /\ call.val.n = v * call.val.d
                                   /\ \A w \in all : w <= v
           /\ call.aggregation = agg_min
                => \E v \in all : /\ call.val.n = v * call.val.d
                                   /\ \A w \in all : v <= w

\* C23 happens: the average of an empty slot and two slots holding 100 and 3
\* is 103 / 3.
C23_Witness ==
    /\ call.op = "aggregate"
    /\ call.aggregation = agg_average
    /\ Len(call.pointsv) = 3
    /\ PointInterval(call.pointsv[1]) = U64(0)
    /\ PointValue(call.pointsv[2]) = 100
    /\ PointValue(call.pointsv[3]) = 3
    /\ PointInterval(call.pointsv[3]) # U64(0)
    /\ call.val.n * 3 = 103 * call.val.d

\* C24: the method last gives the value of the point whose interval is the
\* greatest of the run, and of the first such point when several hold the
\* greatest interval.
C24_LastIsLatest ==
    (call.op = "aggregate" /\ call.aggregation = agg_last)
    => \E i \in 1..Len(call.pointsv) :
          /\ \A j \in 1..Len(call.pointsv) :
                ~WLt(PointInterval(call.pointsv[i]), PointInterval(call.pointsv[j]))
          /\ \A j \in 1..(i - 1) :
                PointInterval(call.pointsv[j]) # PointInterval(call.pointsv[i])
          /\ call.val.n = PointValue(call.pointsv[i]) * call.val.d

\* The byte at offset off belongs to the slot of archive j for a timestamp.
InSlotOf(mmr, j, timestamp, off) ==
    LET start == murmur_seek_to_point(mmr.archives[j], timestamp).seeked
    IN  start <= off /\ off < start + SizeofPoint

\* C25: after a murmur_set that returned 0 with primary archive i, every
\* byte of the file that differs from what it was lies in the slot for t of
\* one of the archives i, ..., N, each of these slots holds the bucket start
\* of t in its archive, and the archives finer than i are as they were; in a
\* murmur_set that failed on the way, a coarser slot is changed only when the
\* slot of the archive above it holds its bucket start (finest first).
C25_OneSlotPerArchive ==
    (call.op = "set" /\ call.arch # 0)
    => /\ \A off \in 0..(Max(disk.size, call.before.size) - 1) :
             ByteAt(disk, off) # ByteAt(call.before, off)
             => \E j \in call.arch..handle.archive_count :
                   InSlotOf(handle, j, call.timestamp, off)
       /\ disk.size = call.before.size
       /\ call.ret = 0
            => \A j \in call.arch..handle.archive_count :
                  PointInterval(SlotOf(disk, handle.archives[j],
                                       SlotIndex(handle.archives[j], call.timestamp)))
                     = BucketStart(handle.archives[j], call.timestamp)
       /\ \A j \in (call.arch + 1)..handle.archive_count :
             SlotOf(disk, handle.archives[j],
                    SlotIndex(handle.archives[j], call.timestamp))
               # SlotOf(call.before, handle.archives[j],
                        SlotIndex(handle.archives[j], call.timestamp))
             => PointInterval(SlotOf(disk, handle.archives[j - 1],
                                     SlotIndex(handle.archives[j - 1], call.timestamp)))
                  = BucketStart(handle.archives[j - 1], call.timestamp)

\* C25 happens: a set that returned 0 with the second archive as primary, on
\* a file that held points: the slots of the second and the third archive
\* changed and the first archive did not.
C25_Witness ==
    /\ call.op = "set"
    /\ call.ret = 0
    /\ call.fail = 0
    /\ call.arch = 2
    /\ call.before = SeededFile
    /\ \A j \in 2..3 :
          SlotOf(disk, handle.archives[j], SlotIndex(handle.archives[j], call.timestamp))
            # SlotOf(call.before, handle.archives[j],
                     SlotIndex(handle.archives[j], call.timestamp))
    /\ ReadAt(disk, handle.archives[1].offset, handle.archives[1].size)
          = ReadAt(SeededFile, handle.archives[1].offset, handle.archives[1].size)
    /\ PointValue(SlotOf(SeededFile, handle.archives[1], 3)) = 100

\* The slot at position j of arch is all zero, or holds an interval that is
\* a multiple of seconds_per_point and belongs at position j.
Canonical(f, arch, j) ==
    LET pt == SlotOf(f, arch, j)
    IN  \/ pt = Zeros(SizeofPoint)
        \/ /\ arch.retention > 0
           /\ WMod(PointInterval(pt), arch.seconds_per_point) = 0
           /\ WMod(PointInterval(pt), arch.retention) \div arch.seconds_per_point = j

\* The slots of arch that can hold anything but zeros: the ones that start
\* before the last byte the file stores.
StoredSlots(f, arch) ==
    {j \in 0..(arch.points - 1) : arch.offset + SizeofPoint * j < Len(f.bytes)}

\* C26: once a file that murmur_create has just created is opened, before
\* and after any murmur_set, each slot of each archive is all zero or holds
\* an interval that is a multiple of the archive's seconds_per_point and
\* whose index (interval mod retention) / seconds_per_point is the position
\* of the slot.
C26_SlotsCanonical ==
    (handle.open /\ call.op = "open" /\ call.prev.op = "create" /\ call.prev.ret = 0)
    => \A i \in 1..handle.archive_count :
          \A j \in StoredSlots(disk, handle.archives[i]) :
             Canonical(disk, handle.archives[i], j)

\* The bytes from off on, len of them, lie in the ring of arch and in the
\* file f.
InRing(f, arch, off, len) ==
    /\ len >= 0
    /\ arch.offset <= off
    /\ off + len <= arch.offset + SizeofPoint * arch.points
    /\ off + len <= f.size

\* C27: on the files of the runs, whose archives satisfy V1 to V4, for every
\* archive and every timestamp the slot index is below points, the point
\* that murmur_get reads and murmur_set writes lies in the ring of the
\* archive, and so does every range the propagation reads from it, both
\* parts of a wrapped window included.
C27_AccessesInRing ==
    \A i \in 1..handle.archive_count :
       \A timestamp \in TimestampInputs(handle, now) :
          LET A == handle.archives[i]
              at == murmur_seek_to_point(A, timestamp).seeked
              k == handle.archives[A.lower].seconds_per_point
                      \div A.seconds_per_point
              ranges == WindowRanges(A, at, k * SizeofPoint)
          IN  /\ (at - A.offset) \div SizeofPoint < A.points
              /\ InRing(disk, A, at, SizeofPoint)
              /\ A.lower # 0
                   => \A r \in 1..Len(ranges) :
                         InRing(disk, A, ranges[r].off, ranges[r].len)

\* C27 happens: a set that returned 0 wrote the last slot of the first
\* archive, and the window of four read from there took two reads.
C27_Witness ==
    /\ call.op = "set"
    /\ call.ret = 0
    /\ call.arch = 1
    /\ handle.archives[2].seconds_per_point = 4
    /\ LET A == handle.archives[1]
           at == murmur_seek_to_point(A, call.timestamp).seeked
       IN  /\ at + SizeofPoint = A.offset + A.size
           /\ Len(WindowRanges(A, at, 4 * SizeofPoint)) = 2
           /\ WindowRanges(A, at, 4 * SizeofPoint)[2].len = 3 * SizeofPoint
           /\ PointInterval(ReadAt(disk, at, SizeofPoint)) = call.timestamp

\* C28: after a murmur_create that returned 0 and the murmur_open of the
\* file, the retention of every archive is the product of its
\* seconds_per_point and its points, not cut to 32 bits, and max_retention
\* is the greatest of these products.
C28_RetentionExact ==
    (/\ call.op = "open"
     /\ handle.open
     /\ call.prev.op = "create"
     /\ call.prev.ret = 0)
    => LET true(a) == Product(handle.archives[a].seconds_per_point,
                              handle.archives[a].points)
       IN  /\ \A a \in 1..handle.archive_count :
                 /\ U64(handle.archives[a].retention) = true(a)
                 /\ ~WLt(handle.max_retention, true(a))
           /\ \E a \in 1..handle.archive_count : handle.max_retention = true(a)

-----------------------------------------------------------------------------
\* C29: murmur_create never ends the process, and when it returns 0 every
\* archive of the file it leaves has seconds_per_point > 0 and points > 0.
C29_PositiveArchives ==
    call.op = "create"
    => /\ ~call.fpe
       /\ call.ret = 0
          => LET mmr == murmur_open(disk, FALSE).mmr
             IN  \A a \in 1..mmr.archive_count :
                    /\ mmr.archives[a].seconds_per_point > 0
                    /\ mmr.archives[a].points > 0

-----------------------------------------------------------------------------
\* The multiplier of a unit, by its first letter; seconds when it is missing.
UnitSeconds(unit) ==
    IF unit = <<>> THEN 1
    ELSE CASE unit[1] = "s" -> 1
           [] unit[1] = "m" -> 60
           [] unit[1] = "h" -> 3600
           [] unit[1] = "d" -> 86400
           [] unit[1] = "w" -> 604800
           [] unit[1] = "y" -> 604800 * 365

\* C30: a token PRECISION:RETENTION whose division is defined parses, with
\* seconds_per_point the left number times the multiplier of its unit, and
\* points the right number times its multiplier divided by seconds_per_point
\* (integer division) when the right side has a unit, the right number
\* itself when it has none.
C30_TokenSemantics ==
    call.op = "parse"
    => LET seconds_per_point == call.left[1] * UnitSeconds(call.left[2])
       IN  (call.right[2] = <<>> \/ seconds_per_point # 0)
           => /\ call.res = "ok"
              /\ call.count = 1
              /\ call.headers[1].seconds_per_point = seconds_per_point
              /\ call.headers[1].points
                    = IF call.right[2] = <<>> THEN call.right[1]
                      ELSE (call.right[1] * UnitSeconds(call.right[2]))
                              \div seconds_per_point

\* "10s:60s" parsed: 10 seconds per point and 6 points.
C30_Witness ==
    /\ call.op = "parse"
    /\ call.specv = <<<<"1", "0", "s", ":", "6", "0", "s">>>>
    /\ call.res = "ok"
    /\ call.headers[1].seconds_per_point = 10
    /\ call.headers[1].points = 6

-----------------------------------------------------------------------------
\* C31: when murmur_create returns, on success and on every failure, the
\* descriptor it opened is closed and the parsed archive array is freed.
C31_CreateReleases ==
    call.op = "create" => call.closed /\ call.freed

-----------------------------------------------------------------------------
\* C32: murmur_dump, once called on an opened file, returns: at the end of
\* the file and also after a read that failed.
C32_DumpTerminates ==
    (call.op = "dump") ~> (call.op = "dump" /\ call.pc = "returned")

====
